---- MODULE Spec2Model ----
(***************************************************************************)
(* Timezone-window computation of server.js: isInDST, getTimezoneLabel,    *)
(* createUserTimezoneDateRange and createUserTimezoneDay, together with    *)
(* the ECMAScript Date primitives they are written in.                     *)
(*                                                                         *)
(* A Date is a record [s, ms]: whole seconds since 2025-01-01T00:00:00Z    *)
(* and the millisecond within the second.  (ECMAScript counts milliseconds *)
(* since 1970; the epoch is moved and the value split so that every time   *)
(* value of the years 2024..2026 fits the checker's integers.)             *)
(* A "local time value" has the same shape and is the Date shifted by the  *)
(* zone's offset, as in the ECMAScript LocalTime/UTC abstract operations.  *)
(***************************************************************************)
EXTENDS Integers, Sequences, FiniteSets, TLC

VARIABLES
    hostTZ,     \* the timezone the process runs in (TZ of its environment)
    clock,      \* the reading of the wall clock, what new Date() returns
    call,       \* the most recent call of a function of server.js and its result
    handler,    \* per request handler in flight: the window call it makes, the
                \* statement it is at, and the value returned to it
    frame,      \* the parameters and local variables of each call in flight
    adminSessions,  \* adminAuth.js: the session store, token -> session
    issued,         \* the number of session tokens drawn so far
    cleanups,       \* the runs of the cleanup interval's callback so far
    organizations,  \* the ClientOrganization table, tenantId -> row
    authLog         \* per tenant, the "User authenticated" lines logged

vars == <<hostTZ, clock, call, handler, frame,
          adminSessions, issued, cleanups, organizations, authLog>>

\* the state of adminAuth.js and the state of the database and the log
adminVars == <<adminSessions, issued, cleanups>>
dbVars == <<organizations, authLog>>

NoCall == [op |-> "none"]

\* the request handlers that can be in flight at once
Handlers == {1, 2}

\* a handler that is not computing a window
Idle == [pc |-> "idle"]

\* the activation record of a window function before its first statement:
\* the parameters hold their defaults, the locals a Date not yet assigned
NewFrame ==
    LET unassigned == [s |-> 0, ms |-> 0]
    IN [userTimezone |-> "America/New_York", days |-> 7,
        now |-> unassigned, startDate |-> unassigned, endDate |-> unassigned,
        targetDate |-> unassigned, startOfDay |-> unassigned,
        endOfDay |-> unassigned, date |-> unassigned]

\* adminAuth.js: SESSION_TIMEOUT and the period of the cleanup interval,
\* in seconds
SESSION_TIMEOUT == 30 * 60

CLEANUP_INTERVAL == 15 * 60

\* no session, no token drawn, the cleanup interval started when the module
\* was loaded; an empty table and an empty log
ModulesLoaded ==
    /\ adminSessions = [t \in {} |-> 0]
    /\ issued = 0
    /\ cleanups = 0
    /\ organizations = [t \in {} |-> 0]
    /\ authLog = [t \in {} |-> 0]

-----------------------------------------------------------------------------
(* Bounds of the inputs.                                                   *)

\* largest `days` / `daysOffset` argument tried
MaxDays == 7
\* largest number of days a daysOffset argument goes back
MaxBack == 1

\* the most email ids in one move-selected-to-trash request
MaxEmailIds == 3

\* the most admin sessions created, and the number of periods of the cleanup
\* interval the clock runs through
MaxSessions == 2

MaxCleanups == 3

\* the most successful logins through /auth/callback
MaxLogins == 3

-----------------------------------------------------------------------------
(* ECMAScript calendar arithmetic (Day, TimeWithinDay, DayFromYear,        *)
(* YearFromTime, MonthFromTime, DateFromTime, MakeDay, MakeTime).          *)

SecPerHour == 60 * 60
SecPerDay == 24 * SecPerHour

Years == 2024..2026

\* day number of 2025-01-01 counted from 1970-01-01 (the rebased epoch)
EpochDay == 365 * (2025 - 1970) + ((2025 - 1969) \div 4)
            - ((2025 - 1901) \div 100) + ((2025 - 1601) \div 400)

DayFromYear(y) == 365 * (y - 1970) + ((y - 1969) \div 4)
                  - ((y - 1901) \div 100) + ((y - 1601) \div 400) - EpochDay

InLeapYear(y) == (y % 4 = 0 /\ y % 100 # 0) \/ y % 400 = 0

\* days of a common year before the first of each month, and the year's length
CumulativeDays == <<0, 31, 59, 90, 120, 151, 181, 212, 243, 273, 304, 334, 365>>

\* days of the year before the first of month m (m = 0..11; m = 12: the length)
DaysBeforeMonth(m, leap) ==
    CumulativeDays[m + 1] + (IF leap /\ m >= 2 THEN 1 ELSE 0)

Day(t) == t.s \div SecPerDay
TimeWithinDay(t) == t.s % SecPerDay

\* the civil date of every day number of the years of the model
CivilFromDay ==
    [d \in DayFromYear(2024)..(DayFromYear(2027) - 1) |->
       LET y == CHOOSE y \in Years : DayFromYear(y) <= d /\ d < DayFromYear(y + 1)
           n == d - DayFromYear(y)
           m == CHOOSE m \in 0..11 : /\ DaysBeforeMonth(m, InLeapYear(y)) <= n
                                     /\ n < DaysBeforeMonth(m + 1, InLeapYear(y))
       IN [year |-> y, month |-> m, date |-> n - DaysBeforeMonth(m, InLeapYear(y)) + 1]]

YearFromTime(t) == CivilFromDay[Day(t)].year
MonthFromTime(t) == CivilFromDay[Day(t)].month
DateFromTime(t) == CivilFromDay[Day(t)].date

HourFromTime(t) == TimeWithinDay(t) \div SecPerHour
MinFromTime(t) == (TimeWithinDay(t) % SecPerHour) \div 60
SecFromTime(t) == TimeWithinDay(t) % 60

\* MakeDay normalises the month into the year and lets the date run over:
\* the day number of the first of the month plus date - 1.
MakeDay(year, month, date) ==
    LET ym == year + (month \div 12)
        mn == month % 12
    IN DayFromYear(ym) + DaysBeforeMonth(mn, InLeapYear(ym)) + date - 1

MakeTime(hour, min, sec) == hour * SecPerHour + min * 60 + sec

MakeDate(dayNo, time, ms) == [s |-> dayNo * SecPerDay + time, ms |-> ms]

\* the Date of a UTC wall-clock reading (Date.UTC)
TimeUTC(y, mo, d, h, mi, sec, ms) ==
    MakeDate(MakeDay(y, mo - 1, d), MakeTime(h, mi, sec), ms)

Before(a, b) == a.s < b.s \/ (a.s = b.s /\ a.ms < b.ms)

-----------------------------------------------------------------------------
(* The platform's timezone database, for the zones of the model and the    *)
(* years 2024..2026.  Offsets are seconds east of UTC.                     *)

Zones == {"America/New_York", "Australia/Sydney", "America/Phoenix", "UTC"}

StdOffset(z) ==
    CASE z = "America/New_York" -> -5 * SecPerHour
      [] z = "Australia/Sydney" -> 10 * SecPerHour
      [] z = "America/Phoenix"  -> -7 * SecPerHour
      [] z = "UTC"              -> 0

DstOffset(z) ==
    CASE z = "America/New_York" -> -4 * SecPerHour
      [] z = "Australia/Sydney" -> 11 * SecPerHour
      [] z = "America/Phoenix"  -> -7 * SecPerHour
      [] z = "UTC"              -> 0

\* the zone identifiers callers pass: the zones of the database and one the
\* database does not know
ZoneIds == Zones \cup {"Mars/Phobos"}

\* Intl's test of a timeZone option
IsValidTimeZone(zone) == zone \in Zones

\* the exception Intl throws for a timeZone option it cannot resolve
RangeError == [error |-> "RangeError", message |-> "Invalid time zone specified"]

\* v is a thrown exception, not a returned value
Thrown(v) == "error" \in DOMAIN v

\* the daylight-saving periods [from, until) of each zone, as UTC instants
TZDatabase ==
    [z \in Zones |->
       CASE z = "America/New_York" ->
              { <<TimeUTC(2024, 3, 10, 7, 0, 0, 0), TimeUTC(2024, 11, 3, 6, 0, 0, 0)>>,
                <<TimeUTC(2025, 3, 9, 7, 0, 0, 0),  TimeUTC(2025, 11, 2, 6, 0, 0, 0)>>,
                <<TimeUTC(2026, 3, 8, 7, 0, 0, 0),  TimeUTC(2026, 11, 1, 6, 0, 0, 0)>> }
         [] z = "Australia/Sydney" ->
              { <<TimeUTC(2023, 9, 30, 16, 0, 0, 0), TimeUTC(2024, 4, 6, 16, 0, 0, 0)>>,
                <<TimeUTC(2024, 10, 5, 16, 0, 0, 0), TimeUTC(2025, 4, 5, 16, 0, 0, 0)>>,
                <<TimeUTC(2025, 10, 4, 16, 0, 0, 0), TimeUTC(2026, 4, 4, 16, 0, 0, 0)>>,
                <<TimeUTC(2026, 10, 3, 16, 0, 0, 0), TimeUTC(2027, 4, 3, 16, 0, 0, 0)>> }
         [] OTHER -> {}]

DSTPeriods(z) == TZDatabase[z]

\* whether zone z observes daylight time at the UTC second u
ZoneInDST(z, u) == \E p \in DSTPeriods(z) : p[1].s <= u /\ u < p[2].s

\* the offset zone z observes at the UTC second u
OffsetAt(z, u) == IF ZoneInDST(z, u) THEN DstOffset(z) ELSE StdOffset(z)

-----------------------------------------------------------------------------
(* ECMAScript Date in a process whose timezone is `tz`.                    *)

\* LocalTime(t): the Date shifted by the offset in force at t
LocalTime(tz, t) == [s |-> t.s + OffsetAt(tz, t.s), ms |-> t.ms]

\* UTC(tlocal): a local time that is repeated (clocks set back) or skipped
\* (clocks set forward) is read with the offset in force before the
\* transition; every other local time has one reading.
UTC(tz, tl) ==
    LET uDst == tl.s - DstOffset(tz)
        uStd == tl.s - StdOffset(tz)
    IN IF OffsetAt(tz, uDst) = DstOffset(tz)
       THEN [s |-> uDst, ms |-> tl.ms]
       ELSE [s |-> uStd, ms |-> tl.ms]

\* date.getTimezoneOffset(): minutes to add to local time to get UTC
getTimezoneOffset(tz, t) == (t.s - LocalTime(tz, t).s) \div 60

getFullYear(tz, t) == YearFromTime(LocalTime(tz, t))

getDate(tz, t) == DateFromTime(LocalTime(tz, t))

\* new Date(year, month, date): local midnight of that date
NewDate(tz, year, month, date) ==
    UTC(tz, MakeDate(MakeDay(year, month, date), 0, 0))

\* date.setDate(dt): the date field replaced, time of day kept
setDate(tz, t, dt) ==
    LET tl == LocalTime(tz, t)
    IN UTC(tz, MakeDate(MakeDay(YearFromTime(tl), MonthFromTime(tl), dt),
                        TimeWithinDay(tl), tl.ms))

\* date.setHours(hour, min, sec, ms): the time of day replaced, date kept
setHours(tz, t, hour, min, sec, ms) ==
    LET tl == LocalTime(tz, t)
    IN UTC(tz, MakeDate(Day(tl), MakeTime(hour, min, sec), ms))

\* date.toLocaleString('en-US', { timeZone: zone }): "M/D/YYYY, h:mm:ss AM",
\* the fields of the zone's wall clock on a 12-hour clock, no milliseconds
LocaleFields(t, zone) ==
    LET tl == LocalTime(zone, t)
        h == HourFromTime(tl)
    IN [month |-> MonthFromTime(tl) + 1,
        day |-> DateFromTime(tl),
        year |-> YearFromTime(tl),
        hour |-> IF h % 12 = 0 THEN 12 ELSE h % 12,
        minute |-> MinFromTime(tl),
        second |-> SecFromTime(tl),
        dayPeriod |-> IF h < 12 THEN "AM" ELSE "PM"]

\* toLocaleString reading an unknown zone as UTC instead of throwing
toLocaleString_DefaultsToUTC(t, zone) ==
    IF IsValidTimeZone(zone) THEN LocaleFields(t, zone) ELSE LocaleFields(t, "UTC")

\* an unknown timeZone throws a RangeError
toLocaleString(t, zone) ==
    IF IsValidTimeZone(zone) THEN LocaleFields(t, zone) ELSE RangeError

\* new Date(string): a date-time string without an offset is read as a wall
\* clock of the process's zone
DateParse(tz, str) ==
    LET h == (str.hour % 12) + (IF str.dayPeriod = "PM" THEN 12 ELSE 0)
    IN UTC(tz, MakeDate(MakeDay(str.year, str.month - 1, str.day),
                        MakeTime(h, str.minute, str.second), 0))

-----------------------------------------------------------------------------
(* Display formatting.  A formatted string is the sequence of its pieces:  *)
(* every digit and punctuation mark is one piece, a name (weekday, month,  *)
(* AM/PM, timezone abbreviation) is one piece.                             *)

DigitChars == <<"0", "1", "2", "3", "4", "5", "6", "7", "8", "9">>

Digit(n) == DigitChars[n + 1]

\* a field formatted 'numeric': its decimal digits, no padding
RECURSIVE Numeric(_)
Numeric(n) == IF n < 10 THEN <<Digit(n)>> ELSE Numeric(n \div 10) \o <<Digit(n % 10)>>

\* a field formatted '2-digit': the last two decimal digits, zero-padded
TwoDigit(n) == <<Digit((n \div 10) % 10), Digit(n % 10)>>

\* the day of the week of a local time value, 0 = Sunday; 1 January 2025
\* is a Wednesday
WeekDay(tl) == (Day(tl) + 3) % 7

ShortWeekdays == <<"Sun", "Mon", "Tue", "Wed", "Thu", "Fri", "Sat">>

LongWeekdays ==
    <<"Sunday", "Monday", "Tuesday", "Wednesday", "Thursday", "Friday", "Saturday">>

ShortMonths ==
    <<"Jan", "Feb", "Mar", "Apr", "May", "Jun", "Jul", "Aug", "Sep", "Oct", "Nov", "Dec">>

LongMonths ==
    <<"January", "February", "March", "April", "May", "June", "July", "August",
      "September", "October", "November", "December">>

\* timeZoneName: 'short' in the en-US locale
TimeZoneName(zone, t) ==
    CASE zone = "America/New_York" -> IF ZoneInDST(zone, t.s) THEN "EDT" ELSE "EST"
      [] zone = "Australia/Sydney" -> IF ZoneInDST(zone, t.s) THEN "GMT+11" ELSE "GMT+10"
      [] zone = "America/Phoenix" -> "MST"
      [] zone = "UTC" -> "UTC"

\* the string Intl returns for a resolvable zone, an exception otherwise
Formatted(zone, pieces) == IF IsValidTimeZone(zone) THEN [text |-> pieces] ELSE RangeError

\* { hour: 'numeric', minute: '2-digit', hour12: true } with the minute
\* formatted 'numeric'
HourMinute_MinuteNumeric(f) ==
    Numeric(f.hour) \o <<":">> \o Numeric(f.minute) \o <<" ", f.dayPeriod>>

\* { hour: 'numeric', minute: '2-digit', hour12: true }: "2:05 PM"
HourMinute(f) ==
    Numeric(f.hour) \o <<":">> \o TwoDigit(f.minute) \o <<" ", f.dayPeriod>>

\* { month: 'short', day: 'numeric' }: "Jan 15"
MonthDay(f) == <<ShortMonths[f.month], " ">> \o Numeric(f.day)

\* date.toLocaleTimeString('en-US', { hour, minute, hour12, timeZone }),
\* and toLocaleString with the same options: "2:05 PM"
toLocaleTimeString(t, zone) == Formatted(zone, HourMinute(LocaleFields(t, zone)))

\* date.toLocaleDateString('en-US', { timeZone }): "1/15/2025"
toLocaleDateString(t, zone) ==
    LET f == LocaleFields(t, zone)
    IN Formatted(zone, Numeric(f.month) \o <<"/">> \o Numeric(f.day) \o <<"/">>
                         \o Numeric(f.year))

\* date.toLocaleString('en-US', { timeZone, weekday: 'short', month: 'short',
\* day, hour, minute, hour12 }): "Wed, Jan 15, 2:05 PM"
startTimeFormatted(t, zone) ==
    LET f == LocaleFields(t, zone)
    IN Formatted(zone, <<ShortWeekdays[WeekDay(LocalTime(zone, t)) + 1], ",", " ">>
                         \o MonthDay(f) \o <<",", " ">> \o HourMinute(f))

\* date.toLocaleString('en-US', { timeZone, month: 'short', day, hour,
\* minute, hour12 }): "Jan 15, 2:05 PM"
emailTime(t, zone) ==
    LET f == LocaleFields(t, zone)
    IN Formatted(zone, MonthDay(f) \o <<",", " ">> \o HourMinute(f))

\* now.toLocaleString('en-US', { timeZone, weekday: 'long', year, month:
\* 'long', day, hour, minute, hour12, timeZoneName: 'short' }):
\* "Wednesday, January 15, 2025 at 7:00 AM EST"
currentTime(t, zone) ==
    LET f == LocaleFields(t, zone)
    IN Formatted(zone, <<LongWeekdays[WeekDay(LocalTime(zone, t)) + 1], ",", " ",
                         LongMonths[f.month], " ">> \o Numeric(f.day) \o <<",", " ">>
                         \o Numeric(f.year) \o <<" ", "at", " ">> \o HourMinute(f)
                         \o <<" ", TimeZoneName(zone, t)>>)

-----------------------------------------------------------------------------
(* server.js.  `tz` is the timezone of the process and `now` the reading   *)
(* of new Date(); the code takes both from its environment.                *)

Max(a, b) == IF a >= b THEN a ELSE b

\* isInDST with the sign of the instant's offset reversed
isInDST_SignReversed(tz, date) ==
    LET jan == getTimezoneOffset(tz, NewDate(tz, getFullYear(tz, date), 0, 1))
        jul == getTimezoneOffset(tz, NewDate(tz, getFullYear(tz, date), 6, 1))
    IN Max(jan, jul) # 0 - getTimezoneOffset(tz, date)

\* isInDST taking January for the standard-time month
isInDST_JanuaryIsStandard(tz, date) ==
    LET jan == getTimezoneOffset(tz, NewDate(tz, getFullYear(tz, date), 0, 1))
    IN jan # getTimezoneOffset(tz, date)

isInDST(tz, date) ==
    LET jan == getTimezoneOffset(tz, NewDate(tz, getFullYear(tz, date), 0, 1))
        jul == getTimezoneOffset(tz, NewDate(tz, getFullYear(tz, date), 6, 1))
    IN Max(jan, jul) # getTimezoneOffset(tz, date)

\* getTimezoneLabel with the two abbreviations exchanged
getTimezoneLabel_Exchanged(tz, date) == IF isInDST(tz, date) THEN "EST" ELSE "EDT"

getTimezoneLabel(tz, date) == IF isInDST(tz, date) THEN "EDT" ELSE "EST"

\* createUserTimezoneDateRange moving the end date by days * 24 hours of
\* elapsed time instead of setting the date field
createUserTimezoneDateRange_ElapsedDays(tz, now, zone, days) ==
    LET str == toLocaleString(now, zone)
        startDate == setHours(tz, DateParse(tz, str), 0, 0, 0, 0)
        moved == [s |-> startDate.s + days * SecPerDay, ms |-> startDate.ms]
        endDate == setHours(tz, moved, 23, 59, 59, 999)
    IN IF Thrown(str) THEN str
       ELSE [start |-> startDate,
             end |-> endDate,
             userTimezone |-> zone,
             timezoneLabel |-> getTimezoneLabel(tz, now)]

\* createUserTimezoneDateRange taking every day for 24 hours long: the end
\* is (days + 1) * 24 hours less 1 ms after the start
createUserTimezoneDateRange_FixedLength(tz, now, zone, days) ==
    LET str == toLocaleString(now, zone)
        startDate == setHours(tz, DateParse(tz, str), 0, 0, 0, 0)
        endDate == [s |-> startDate.s + (days + 1) * SecPerDay - 1, ms |-> 999]
    IN IF Thrown(str) THEN str
       ELSE [start |-> startDate,
             end |-> endDate,
             userTimezone |-> zone,
             timezoneLabel |-> getTimezoneLabel(tz, now)]

\* createUserTimezoneDateRange going `days` days back instead of ahead
createUserTimezoneDateRange_DaysBack(tz, now, zone, days) ==
    LET str == toLocaleString(now, zone)
        startDate == setHours(tz, DateParse(tz, str), 0, 0, 0, 0)
        endDate == setHours(tz, setDate(tz, startDate, getDate(tz, startDate) - days - 1),
                            23, 59, 59, 999)
    IN IF Thrown(str) THEN str
       ELSE [start |-> startDate,
             end |-> endDate,
             userTimezone |-> zone,
             timezoneLabel |-> getTimezoneLabel(tz, now)]

createUserTimezoneDateRange(tz, now, zone, days) ==
    LET str == toLocaleString(now, zone)
        startDate == setHours(tz, DateParse(tz, str), 0, 0, 0, 0)
        endDate == setHours(tz, setDate(tz, startDate, getDate(tz, startDate) + days),
                            23, 59, 59, 999)
    IN IF Thrown(str) THEN str
       ELSE [start |-> startDate,
             end |-> endDate,
             userTimezone |-> zone,
             timezoneLabel |-> getTimezoneLabel(tz, now)]

createUserTimezoneDay(tz, now, zone, daysOffset) ==
    LET str == toLocaleString(now, zone)
        parsed == DateParse(tz, str)
        targetDate == setDate(tz, parsed, getDate(tz, parsed) + daysOffset)
        startOfDay == setHours(tz, targetDate, 0, 0, 0, 0)
        endOfDay == setHours(tz, targetDate, 23, 59, 59, 999)
    IN IF Thrown(str) THEN str
       ELSE [start |-> startOfDay,
             end |-> endOfDay,
             userTimezone |-> zone,
             timezoneLabel |-> getTimezoneLabel(tz, now)]

\* the dateTime Microsoft Graph returns for an event at instant t under
\* Prefer: outlook.timezone="zone": the zone's wall clock, without an offset
GraphDateTime(t, zone) == LocaleFields(t, zone)

\* GET /api/calendar/today: the displayTime of one event, built from the
\* two formatted times and the label of today's window
displayTime(tz, now, event) ==
    LET userTimezone == "America/New_York"
        todayRange == createUserTimezoneDay(tz, now, userTimezone, 0)
        startTime == DateParse(tz, GraphDateTime(event.start, userTimezone))
        endTime == DateParse(tz, GraphDateTime(event.end, userTimezone))
        startFormatted == toLocaleTimeString(startTime, userTimezone).text
        endFormatted == toLocaleTimeString(endTime, userTimezone).text
    IN [formatted |-> <<startFormatted, endFormatted>>,
        text |-> startFormatted \o <<" ", "-", " ">> \o endFormatted
                   \o <<" ", todayRange.timezoneLabel>>]

\* POST /api/calendar/analyze: the time of one email in emailSummary, with
\* the label the handler computes from the offsets of the process's zone
emailSummary(tz, now, receivedDateTime) ==
    LET userTimezone == "America/New_York"
        timezoneLabel == IF isInDST(tz, now) THEN "EDT" ELSE "EST"
        formatted == emailTime(receivedDateTime, userTimezone).text
    IN [formatted |-> <<formatted>>,
        text |-> formatted \o <<" ", timezoneLabel>>]

\* POST /api/calendar/analyze: "Current time: ${currentTime}" of the prompt
promptCurrentTime(now) ==
    LET userTimezone == "America/New_York"
        formatted == currentTime(now, userTimezone).text
    IN [formatted |-> <<formatted>>, text |-> formatted]

\* ClaudeAIService.formatEmailsForPrompt: "Date: ${date} ${time} EST"
formatEmailsForPrompt(receivedDateTime) ==
    LET userTimezone == "America/New_York"
        date == toLocaleDateString(receivedDateTime, userTimezone).text
        time == toLocaleTimeString(receivedDateTime, userTimezone).text
    IN [formatted |-> <<date, time>>,
        text |-> date \o <<" ">> \o time \o <<" ", "EST">>]

-----------------------------------------------------------------------------
(* The /api route handlers of server.js.  A request carries the accessToken *)
(* cookie or not and the body fields the handler validates or not; the      *)
(* response is the status sent and the external calls issued on the way.    *)

\* what each handler does after the cookie check: whether it validates its
\* body, and the external calls it issues in order when none of them fails
\* (`together` is the number of leading calls issued in one Promise.all)
ApiRoutes ==
    [name : {"GET /api/emails"}, validates : {FALSE},
        calls : {<<"graph", "graph">>}, together : {1}]
    \cup [name : {"GET /api/emails/summary/daily"}, validates : {FALSE},
        calls : {<<"graph", "llm">>}, together : {1}]
    \cup [name : {"POST /api/emails/query"}, validates : {TRUE},
        calls : {<<"graph", "llm">>}, together : {1}]
    \cup [name : {"GET /api/emails/:emailId"}, validates : {FALSE},
        calls : {<<"graph">>}, together : {1}]
    \cup [name : {"POST /api/emails/:emailId/respond"}, validates : {FALSE},
        calls : {<<"graph", "llm">>}, together : {1}]
    \cup [name : {"POST /api/emails/:emailId/send"}, validates : {TRUE},
        calls : {<<"graph", "graph">>}, together : {1}]
    \cup [name : {"POST /api/calendar/analyze"}, validates : {FALSE},
        calls : {<<"graph", "graph", "graph", "llm">>}, together : {3}]
    \cup [name : {"POST /api/calendar/create-invite"}, validates : {TRUE},
        calls : {<<"graph">>}, together : {1}]

\* res.status(status).json(...), after the external calls made
Response(status, made) == [status |-> status, calls |-> made]

\* the calls issued when the call number failAt fails (0: none fails): those
\* before it and itself, and all of a Promise.all it belongs to
IssuedCalls(route, failAt) ==
    IF failAt = 0 THEN route.calls
    ELSE SubSeq(route.calls, 1, Max(failAt, IF failAt <= route.together
                                             THEN route.together ELSE 1))

\* a handler with its validation moved behind its first external call
ApiHandler_ValidatesLate(route, req, failAt) ==
    IF ~req.accessToken THEN Response(401, <<>>)
    ELSE IF failAt = 1 THEN Response(500, IssuedCalls(route, failAt))
    ELSE IF route.validates /\ ~req.valid THEN Response(400, SubSeq(route.calls, 1, 1))
    ELSE IF failAt # 0 THEN Response(500, IssuedCalls(route, failAt))
    ELSE Response(200, route.calls)

\* the common shape of the handlers: cookie check, validation, then the
\* external calls inside try/catch
ApiHandler(route, req, failAt) ==
    IF ~req.accessToken THEN Response(401, <<>>)
    ELSE IF route.validates /\ ~req.valid THEN Response(400, <<>>)
    ELSE IF failAt # 0 THEN Response(500, IssuedCalls(route, failAt))
    ELSE Response(200, route.calls)

\* a Number: NaN, or an integer
NaN == [isNaN |-> TRUE, value |-> 0]

Number(n) == [isNaN |-> FALSE, value |-> n]

RECURSIVE DigitsValue(_, _)
\* the value of the longest prefix of decimal digits of str, after acc
DigitsValue(str, acc) ==
    IF str = <<>> \/ ~(\E n \in 0..9 : Digit(n) = Head(str)) THEN acc
    ELSE DigitsValue(Tail(str), 10 * acc + (CHOOSE n \in 0..9 : Digit(n) = Head(str)))

\* parseInt(string): an optional sign and the leading decimal digits, NaN
\* when there is no digit
parseInt(str) ==
    LET negative == str # <<>> /\ Head(str) = "-"
        digits == IF negative THEN Tail(str) ELSE str
    IN IF digits = <<>> \/ ~(\E n \in 0..9 : Digit(n) = Head(digits)) THEN NaN
       ELSE IF negative THEN Number(0 - DigitsValue(digits, 0))
       ELSE Number(DigitsValue(digits, 0))

\* the text of a number in a query string
QueryNumber(n) == IF n < 0 THEN <<"-">> \o Numeric(0 - n) ELSE Numeric(n)

\* GET /api/calendar/events: req.query.days is absent (the default 7) or
\* present with a text.  With days NaN the end of the range is an Invalid Date and
\* dateRange.end.toISOString() throws inside the try block.
GetCalendarEvents(tz, now, req, graphFails) ==
    IF ~req.accessToken THEN Response(401, <<>>)
    ELSE
        LET userTimezone == "America/New_York"
            days == IF ~req.days.present THEN Number(7) ELSE parseInt(req.days.text)
            dateRange == createUserTimezoneDateRange(tz, now, userTimezone, days.value)
        IN IF days.isNaN THEN Response(500, <<>>)
           ELSE IF Thrown(dateRange) THEN Response(500, <<>>)
           ELSE IF graphFails THEN Response(500, <<"graph">>)
           ELSE [status |-> 200, calls |-> <<"graph">>,
                 filter |-> [start |-> dateRange.start, end |-> dateRange.end],
                 timezoneLabel |-> dateRange.timezoneLabel]

\* GET /api/calendar/today
GetCalendarToday(tz, now, req, graphFails) ==
    IF ~req.accessToken THEN Response(401, <<>>)
    ELSE
        LET userTimezone == "America/New_York"
            todayRange == createUserTimezoneDay(tz, now, userTimezone, 0)
        IN IF Thrown(todayRange) THEN Response(500, <<>>)
           ELSE IF graphFails THEN Response(500, <<"graph">>)
           ELSE [status |-> 200, calls |-> <<"graph">>,
                 filter |-> [start |-> todayRange.start, end |-> todayRange.end],
                 timezoneLabel |-> todayRange.timezoneLabel]

RECURSIVE MoveEach_StopsAtFailure(_, _, _)
\* the loop leaving at the first move that fails
MoveEach_StopsAtFailure(emailIds, i, failing) ==
    IF i > Len(emailIds) THEN <<>>
    ELSE IF i \in failing
         THEN <<[emailId |-> emailIds[i], success |-> FALSE]>>
         ELSE <<[emailId |-> emailIds[i], success |-> TRUE]>>
                  \o MoveEach_StopsAtFailure(emailIds, i + 1, failing)

RECURSIVE MoveEach(_, _, _)
\* for (const emailId of emailIds): the results pushed from the i-th id on;
\* `failing` are the positions whose move the mail API rejects
MoveEach(emailIds, i, failing) ==
    IF i > Len(emailIds) THEN <<>>
    ELSE <<[emailId |-> emailIds[i], success |-> i \notin failing]>>
             \o MoveEach(emailIds, i + 1, failing)

\* results.filter(predicate).length
FilterLength(results, wanted) ==
    Cardinality({i \in DOMAIN results : results[i].success = wanted})

\* POST /api/emails/move-selected-to-trash; req.emailIds is the ids of the
\* body's array, and req.kind tells a missing field ("absent") and a value
\* that is no array ("string") from an array
MoveSelectedToTrash(req, failing) ==
    IF ~req.accessToken THEN Response(401, <<>>)
    ELSE IF req.kind # "array" THEN Response(400, <<>>)
    ELSE IF Len(req.emailIds) = 0 THEN Response(400, <<>>)
    ELSE
        LET results == MoveEach(req.emailIds, 1, failing)
        IN [status |-> 200,
            calls |-> [i \in DOMAIN results |-> "graph"],
            results |-> results,
            summary |-> [total |-> Len(req.emailIds),
                         successful |-> FilterLength(results, TRUE),
                         failed |-> FilterLength(results, FALSE)]]

-----------------------------------------------------------------------------
(* The cookie-checking middlewares of the routers.  The userData cookie is *)
(* a JSON text, here the sequence of its tokens: the punctuation marks,    *)
(* null, and the strings (keys and values) without their quotes.           *)

JSONPunctuation == {"{", "}", ":", ","}

\* the value of a property an object does not have
Undefined == "<undefined>"

\* JSON.parse(text): null, or an object of string members (a set of
\* <<key, value>> pairs), or a SyntaxError thrown
JSONParse(text) ==
    LET n == Len(text)
        inner == SubSeq(text, 2, n - 1)
        IsString(tok) == tok \notin JSONPunctuation /\ tok # "null"
        wellFormedMembers ==
            \/ inner = <<>>
            \/ /\ Len(inner) % 4 = 3
               /\ \A i \in DOMAIN inner :
                    CASE i % 4 = 1 -> IsString(inner[i])
                      [] i % 4 = 2 -> inner[i] = ":"
                      [] i % 4 = 3 -> IsString(inner[i])
                      [] OTHER -> inner[i] = ","
    IN IF text = <<"null">>
       THEN [syntaxError |-> FALSE, isNull |-> TRUE, members |-> {}]
       ELSE IF n >= 2 /\ text[1] = "{" /\ text[n] = "}" /\ wellFormedMembers
       THEN [syntaxError |-> FALSE, isNull |-> FALSE,
             members |-> {<<inner[i], inner[i + 2]>> : i \in {j \in DOMAIN inner : j % 4 = 1}}]
       ELSE [syntaxError |-> TRUE, isNull |-> FALSE, members |-> {}]

\* object[key]
Property(object, key) ==
    IF \E m \in object.members : m[1] = key
    THEN (CHOOSE m \in object.members : m[1] = key)[2]
    ELSE Undefined

\* !value is false
Truthy(value) == value \notin {"", Undefined}

\* what a middleware did: the status it answered with (0: it sent nothing),
\* whether it called next, and what it put on the request
Answered(status) == [status |-> status, next |-> FALSE, userEmail |-> Undefined,
                     userTenant |-> Undefined]

\* an exception leaving a middleware: Express answers 500
Uncaught == Answered(500)

\* requireAuth of routes/settings.js and of routes/emails.js; req.userData
\* is the cookie's token sequence, empty when the cookie is absent
requireAuth(req) ==
    IF ~req.accessToken THEN Answered(401)
    ELSE IF req.userData # <<>> /\ JSONParse(req.userData).syntaxError THEN Uncaught
    ELSE
        LET userData == IF req.userData # <<>> THEN JSONParse(req.userData)
                        ELSE [syntaxError |-> FALSE, isNull |-> TRUE, members |-> {}]
        IN IF userData.isNull \/ ~Truthy(Property(userData, "tenantId"))
              \/ ~Truthy(Property(userData, "username"))
           THEN Answered(401)
           ELSE [status |-> 0, next |-> TRUE,
                 userEmail |-> Property(userData, "username"),
                 userTenant |-> Property(userData, "tenantId")]

\* requireTenant of middleware/tenantAuth.js
requireTenant(req) ==
    IF req.userData = <<>> THEN Answered(401)
    ELSE
        LET user == JSONParse(req.userData)
        IN IF user.syntaxError THEN Answered(401)
           ELSE IF user.isNull THEN Answered(401)
           ELSE IF ~Truthy(Property(user, "tenantId")) THEN Answered(401)
           ELSE [status |-> 0, next |-> TRUE,
                 userEmail |-> Undefined,
                 userTenant |-> Property(user, "tenantId")]

-----------------------------------------------------------------------------
(* middleware/adminAuth.js.  Times are whole seconds: DateNow is           *)
(* Date.now() without its milliseconds.  A session token is the number of   *)
(* its draw: crypto.randomBytes(32) never returns the same token twice.     *)
(* A session is its expires and user; loginTime, which nothing reads, is    *)
(* left out.                                                                *)

ADMIN_USERNAME == "admin"

ADMIN_PASSWORD == "secure-password"

\* no adminSession cookie, and a cookie value the server never issued
NoToken == 0

ForgedToken == 0 - 1

DateNow(t) == t.s

\* adminSessions.has(token)
Has(sessions, token) == token \in DOMAIN sessions

\* adminSessions.delete(token)
Delete(sessions, token) == [t \in DOMAIN sessions \ {token} |-> sessions[t]]

\* adminSessions.set(token, session)
Set(sessions, token, session) ==
    [t \in DOMAIN sessions \cup {token} |-> IF t = token THEN session ELSE sessions[t]]

\* what the middleware did with the response: status 0 and next TRUE when
\* it passed the request on
AdminPassed(user, cookie, cleared) ==
    [status |-> 0, next |-> TRUE, adminUser |-> user, setCookie |-> cookie,
     clearCookie |-> cleared, body |-> "none"]

AdminSent(status, cleared, form) ==
    [status |-> status, next |-> FALSE, adminUser |-> "", setCookie |-> NoToken,
     clearCookie |-> cleared, body |-> form]

\* requireAdminAuth accepting a session at the instant of its expiry
requireAdminAuth_AcceptsAtExpiry(req, now, sessions, token) ==
    LET sessionToken == req.adminSession
        known == sessionToken # NoToken /\ Has(sessions, sessionToken)
        live == known /\ now <= sessions[sessionToken].expires
        remaining == IF known THEN Delete(sessions, sessionToken) ELSE sessions
    IN IF live
       THEN [sessions |-> [sessions EXCEPT ![sessionToken].expires = now + SESSION_TIMEOUT],
             ret |-> AdminPassed(sessions[sessionToken].user, NoToken, FALSE)]
       ELSE IF req.method = "POST" /\ req.username # "" /\ req.password # ""
       THEN IF req.username = ADMIN_USERNAME /\ req.password = ADMIN_PASSWORD
            THEN [sessions |-> Set(remaining, token,
                                   [expires |-> now + SESSION_TIMEOUT,
                                    user |-> req.username]),
                  ret |-> AdminPassed(req.username, token, known)]
            ELSE [sessions |-> remaining,
                  ret |-> AdminSent(401, known, "login form: Invalid credentials")]
       ELSE [sessions |-> remaining, ret |-> AdminSent(200, known, "login form")]

\* requireAdminAuth comparing the username only
requireAdminAuth_UsernameOnly(req, now, sessions, token) ==
    LET sessionToken == req.adminSession
        known == sessionToken # NoToken /\ Has(sessions, sessionToken)
        live == known /\ now < sessions[sessionToken].expires
        remaining == IF known THEN Delete(sessions, sessionToken) ELSE sessions
    IN IF live
       THEN [sessions |-> [sessions EXCEPT ![sessionToken].expires = now + SESSION_TIMEOUT],
             ret |-> AdminPassed(sessions[sessionToken].user, NoToken, FALSE)]
       ELSE IF req.method = "POST" /\ req.username # "" /\ req.password # ""
       THEN IF req.username = ADMIN_USERNAME
            THEN [sessions |-> Set(remaining, token,
                                   [expires |-> now + SESSION_TIMEOUT,
                                    user |-> req.username]),
                  ret |-> AdminPassed(req.username, token, known)]
            ELSE [sessions |-> remaining,
                  ret |-> AdminSent(401, known, "login form: Invalid credentials")]
       ELSE [sessions |-> remaining, ret |-> AdminSent(200, known, "login form")]

\* requireAdminAuth(req, res, next) at time now, with `token` the token
\* crypto.randomBytes would return: the store afterwards and the response
requireAdminAuth(req, now, sessions, token) ==
    LET sessionToken == req.adminSession
        known == sessionToken # NoToken /\ Has(sessions, sessionToken)
        live == known /\ now < sessions[sessionToken].expires
        remaining == IF known THEN Delete(sessions, sessionToken) ELSE sessions
    IN IF live
       THEN [sessions |-> [sessions EXCEPT ![sessionToken].expires = now + SESSION_TIMEOUT],
             ret |-> AdminPassed(sessions[sessionToken].user, NoToken, FALSE)]
       ELSE IF req.method = "POST" /\ req.username # "" /\ req.password # ""
       THEN IF req.username = ADMIN_USERNAME /\ req.password = ADMIN_PASSWORD
            THEN [sessions |-> Set(remaining, token,
                                   [expires |-> now + SESSION_TIMEOUT,
                                    user |-> req.username]),
                  ret |-> AdminPassed(req.username, token, known)]
            ELSE [sessions |-> remaining,
                  ret |-> AdminSent(401, known, "login form: Invalid credentials")]
       ELSE [sessions |-> remaining, ret |-> AdminSent(200, known, "login form")]

\* logoutAdmin clearing the cookie only
logoutAdmin_CookieOnly(req, sessions) ==
    [sessions |-> sessions,
     ret |-> [status |-> 302, next |-> FALSE, adminUser |-> "", setCookie |-> NoToken,
              clearCookie |-> TRUE, body |-> "redirect /admin"]]

\* logoutAdmin(req, res)
logoutAdmin(req, sessions) ==
    LET sessionToken == req.adminSession
    IN [sessions |-> IF sessionToken # NoToken /\ Has(sessions, sessionToken)
                     THEN Delete(sessions, sessionToken) ELSE sessions,
        ret |-> [status |-> 302, next |-> FALSE, adminUser |-> "", setCookie |-> NoToken,
                 clearCookie |-> TRUE, body |-> "redirect /admin"]]

\* the tokens the interval callback deletes, with every session deleted
Swept_Everything(now, sessions) == DOMAIN sessions

\* the tokens the interval callback deletes at time now
Swept(now, sessions) == {t \in DOMAIN sessions : now > sessions[t].expires}

\* getActiveSessionsCount()
getActiveSessionsCount(sessions) == Cardinality(DOMAIN sessions)

-----------------------------------------------------------------------------
(* The readings of the wall clock the model tries.                         *)

ReferenceInstants ==
    { TimeUTC(2025, 1, 15, 12, 0, 0, 0),       \* a standard-time noon, US Eastern
      TimeUTC(2025, 1, 16, 2, 30, 15, 250),    \* still 15 January in New York
      TimeUTC(2025, 3, 6, 12, 0, 0, 0),        \* three days before spring forward
      TimeUTC(2025, 3, 8, 15, 0, 0, 0),        \* the day before spring forward
      TimeUTC(2025, 3, 9, 6, 59, 59, 999),     \* last instant of EST
      TimeUTC(2025, 3, 9, 7, 0, 0, 0),         \* first instant of EDT
      TimeUTC(2025, 3, 9, 16, 0, 0, 0),        \* spring-forward day, afternoon
      TimeUTC(2025, 4, 5, 15, 59, 59, 999),    \* last instant of Sydney daylight time
      TimeUTC(2025, 4, 5, 16, 0, 0, 0),        \* first instant of Sydney standard time
      TimeUTC(2025, 7, 15, 12, 0, 0, 0),       \* a daylight-time noon, US Eastern
      TimeUTC(2025, 10, 4, 16, 0, 0, 0),       \* Sydney daylight time begins
      TimeUTC(2025, 11, 1, 12, 0, 0, 0),       \* the day before fall back
      TimeUTC(2025, 11, 2, 5, 59, 59, 999),    \* last instant of EDT
      TimeUTC(2025, 11, 2, 6, 30, 0, 0),       \* 1:30 AM EST, the repeated hour
      TimeUTC(2025, 12, 31, 23, 30, 0, 0) }    \* already 2026 in Sydney

-----------------------------------------------------------------------------
(* The state machine: a process started in some timezone, a wall clock     *)
(* that advances, and calls of the functions with arguments of the        *)
(* caller's choice.  `call` records the arguments, the clock reading the   *)
(* call saw and the value it returned.                                     *)

Init ==
    /\ hostTZ \in Zones
    /\ clock \in ReferenceInstants
    /\ call = NoCall
    /\ handler = [h \in Handlers |-> Idle]
    /\ frame = [h \in Handlers |-> NewFrame]
    /\ ModulesLoaded

\* time passes, to the next reading; the value returned for the earlier
\* reading has been consumed by its caller
Tick ==
    /\ \E t \in ReferenceInstants :
         /\ Before(clock, t)
         /\ \A u \in ReferenceInstants : Before(clock, u) => ~Before(u, t)
         /\ clock' = t
    /\ call' = NoCall
    /\ UNCHANGED <<hostTZ, handler, frame, adminVars, dbVars>>

CallDateRange ==
    /\ \E zone \in ZoneIds, days \in (0 - MaxBack)..MaxDays :
         call' = [op |-> "createUserTimezoneDateRange",
                  userTimezone |-> zone, days |-> days, now |-> clock,
                  ret |-> createUserTimezoneDateRange(hostTZ, clock, zone, days)]
    /\ UNCHANGED <<hostTZ, clock, handler, frame, adminVars, dbVars>>

CallDay ==
    /\ \E zone \in ZoneIds, daysOffset \in (0 - MaxBack)..MaxDays :
         call' = [op |-> "createUserTimezoneDay",
                  userTimezone |-> zone, daysOffset |-> daysOffset, now |-> clock,
                  ret |-> createUserTimezoneDay(hostTZ, clock, zone, daysOffset)]
    /\ UNCHANGED <<hostTZ, clock, handler, frame, adminVars, dbVars>>

\* isInDST() and getTimezoneLabel() with their default argument, new Date()
CallGetTimezoneLabel ==
    /\ call' = [op |-> "getTimezoneLabel", date |-> clock,
                isInDST |-> isInDST(hostTZ, clock),
                ret |-> getTimezoneLabel(hostTZ, clock)]
    /\ UNCHANGED <<hostTZ, clock, handler, frame, adminVars, dbVars>>

Next == Tick \/ CallDateRange \/ CallDay \/ CallGetTimezoneLabel

Spec == Init /\ [][Next]_vars

-----------------------------------------------------------------------------
(* A calendar year sampled daily: the clock starts at noon UTC of          *)
(* 1 January 2025 and is read once a day until 31 December.                *)

InitYear ==
    /\ hostTZ \in Zones
    /\ clock = TimeUTC(2025, 1, 1, 12, 0, 0, 0)
    /\ call = NoCall
    /\ handler = [h \in Handlers |-> Idle]
    /\ frame = [h \in Handlers |-> NewFrame]
    /\ ModulesLoaded

NextDay ==
    /\ Before([s |-> clock.s + SecPerDay, ms |-> clock.ms], TimeUTC(2026, 1, 1, 0, 0, 0, 0))
    /\ clock' = [s |-> clock.s + SecPerDay, ms |-> clock.ms]
    /\ call' = NoCall
    /\ UNCHANGED <<hostTZ, handler, frame, adminVars, dbVars>>

NextYear == NextDay \/ CallGetTimezoneLabel

SpecYear == InitYear /\ [][NextYear]_vars

-----------------------------------------------------------------------------
(* Display: the formatting calls with arguments of the caller's choice,    *)
(* and the strings the handlers and the prompt builder show for the         *)
(* emails and events the mail API returned.                                 *)

\* the instants of the emails and events shown
DisplayInstants ==
    { TimeUTC(2025, 1, 15, 17, 0, 0, 0),       \* noon in New York
      TimeUTC(2025, 1, 16, 5, 30, 0, 0),       \* half past midnight in New York
      TimeUTC(2025, 3, 9, 7, 45, 0, 0),        \* 3:45 AM EDT, after the skipped hour
      TimeUTC(2025, 7, 15, 18, 5, 0, 0),       \* 2:05 PM EDT
      TimeUTC(2025, 11, 2, 6, 30, 0, 0) }      \* 1:30 AM EST, the repeated hour

CallToLocaleTimeString ==
    /\ \E zone \in ZoneIds, date \in DisplayInstants :
         call' = [op |-> "toLocaleTimeString", date |-> date, timeZone |-> zone,
                  ret |-> toLocaleTimeString(date, zone)]
    /\ UNCHANGED <<hostTZ, clock, handler, frame, adminVars, dbVars>>

CallStartTimeFormatted ==
    /\ \E zone \in ZoneIds, date \in DisplayInstants :
         call' = [op |-> "startTimeFormatted", date |-> date, timeZone |-> zone,
                  ret |-> startTimeFormatted(date, zone)]
    /\ UNCHANGED <<hostTZ, clock, handler, frame, adminVars, dbVars>>

CallToLocaleDateString ==
    /\ \E zone \in ZoneIds, date \in DisplayInstants :
         call' = [op |-> "toLocaleDateString", date |-> date, timeZone |-> zone,
                  ret |-> toLocaleDateString(date, zone)]
    /\ UNCHANGED <<hostTZ, clock, handler, frame, adminVars, dbVars>>

\* an event of one hour shown by GET /api/calendar/today
DisplayTime ==
    /\ \E t \in DisplayInstants :
         LET event == [start |-> t, end |-> [s |-> t.s + SecPerHour, ms |-> t.ms]]
         IN call' = [op |-> "displayTime", now |-> clock, event |-> event,
                     ret |-> displayTime(hostTZ, clock, event)]
    /\ UNCHANGED <<hostTZ, clock, handler, frame, adminVars, dbVars>>

EmailSummary ==
    /\ \E t \in DisplayInstants :
         call' = [op |-> "emailSummary", now |-> clock, receivedDateTime |-> t,
                  ret |-> emailSummary(hostTZ, clock, t)]
    /\ UNCHANGED <<hostTZ, clock, handler, frame, adminVars, dbVars>>

PromptCurrentTime ==
    /\ call' = [op |-> "promptCurrentTime", now |-> clock,
                ret |-> promptCurrentTime(clock)]
    /\ UNCHANGED <<hostTZ, clock, handler, frame, adminVars, dbVars>>

FormatEmailsForPrompt ==
    /\ \E t \in DisplayInstants :
         call' = [op |-> "formatEmailsForPrompt", now |-> clock, receivedDateTime |-> t,
                  ret |-> formatEmailsForPrompt(t)]
    /\ UNCHANGED <<hostTZ, clock, handler, frame, adminVars, dbVars>>

NextDisplay ==
    \/ Tick
    \/ CallToLocaleTimeString
    \/ CallStartTimeFormatted
    \/ CallToLocaleDateString
    \/ DisplayTime
    \/ EmailSummary
    \/ PromptCurrentTime
    \/ FormatEmailsForPrompt

SpecDisplay == Init /\ [][NextDisplay]_vars

\* every operation that takes a zone: the window functions and the
\* formatting calls together
NextZoned ==
    \/ Tick
    \/ CallDateRange
    \/ CallDay
    \/ CallToLocaleTimeString
    \/ CallStartTimeFormatted
    \/ CallToLocaleDateString

SpecZoned == Init /\ [][NextZoned]_vars

-----------------------------------------------------------------------------
(* Concurrent requests.  Each handler in flight calls one of the window    *)
(* functions; the calls advance one statement at a time, in any order,     *)
(* while the clock runs.                                                    *)

\* the window calls the handlers make
WindowRequests ==
    { [op |-> "createUserTimezoneDay", userTimezone |-> "America/New_York", days |-> 0],
      [op |-> "createUserTimezoneDay", userTimezone |-> "Australia/Sydney", days |-> 1],
      [op |-> "createUserTimezoneDateRange", userTimezone |-> "America/New_York", days |-> 7],
      [op |-> "createUserTimezoneDateRange", userTimezone |-> "America/New_York", days |-> 0],
      [op |-> "createUserTimezoneDateRange", userTimezone |-> "Mars/Phobos", days |-> 1] }

\* every call's parameters and locals kept in one record shared by all calls
Slot_Shared(h) == 1

\* every call has an activation record of its own
Slot(h) == h

Locals(h) == frame[Slot(h)]

\* the statement at `from` executed by the call of handler h
Step(h, from, to, locals) ==
    /\ handler[h].pc = from
    /\ handler' = [handler EXCEPT ![h].pc = to]
    /\ frame' = [frame EXCEPT ![Slot(h)] = locals]
    /\ UNCHANGED <<hostTZ, clock, call, adminVars, dbVars>>

\* the call returns or throws `value`
Return(h, from, value, locals) ==
    /\ handler[h].pc = from
    /\ handler' = [handler EXCEPT ![h].pc = "done", ![h].ret = value]
    /\ frame' = [frame EXCEPT ![Slot(h)] = locals]
    /\ UNCHANGED <<hostTZ, clock, call, adminVars, dbVars>>

\* a handler calls a window function: the arguments are bound
CallWindow(h) ==
    /\ handler[h].pc = "idle"
    /\ \E req \in WindowRequests :
         /\ handler' = [handler EXCEPT ![h] =
                [pc |-> IF req.op = "createUserTimezoneDay" THEN "L54" ELSE "L31",
                 op |-> req.op, userTimezone |-> req.userTimezone, days |-> req.days,
                 ret |-> NoCall]]
         /\ frame' = [frame EXCEPT ![Slot(h)] =
                [NewFrame EXCEPT !.userTimezone = req.userTimezone, !.days = req.days]]
    /\ UNCHANGED <<hostTZ, clock, call, adminVars, dbVars>>

\* createUserTimezoneDateRange, statement by statement
Range31(h) == Step(h, "L31", "L34", [Locals(h) EXCEPT !.now = clock])

Range34(h) ==
    LET str == toLocaleString(Locals(h).now, Locals(h).userTimezone)
    IN IF Thrown(str)
       THEN Return(h, "L34", str, Locals(h))
       ELSE Step(h, "L34", "L35", [Locals(h) EXCEPT !.startDate = DateParse(hostTZ, str)])

Range35(h) ==
    Step(h, "L35", "L38",
         [Locals(h) EXCEPT !.startDate = setHours(hostTZ, Locals(h).startDate, 0, 0, 0, 0)])

Range38(h) == Step(h, "L38", "L39", [Locals(h) EXCEPT !.endDate = Locals(h).startDate])

Range39(h) ==
    Step(h, "L39", "L40",
         [Locals(h) EXCEPT !.endDate =
             setDate(hostTZ, Locals(h).endDate,
                     getDate(hostTZ, Locals(h).endDate) + Locals(h).days)])

Range40(h) ==
    Step(h, "L40", "L42",
         [Locals(h) EXCEPT !.endDate = setHours(hostTZ, Locals(h).endDate, 23, 59, 59, 999)])

Range42(h) ==
    Return(h, "L42",
           [start |-> Locals(h).startDate,
            end |-> Locals(h).endDate,
            userTimezone |-> Locals(h).userTimezone,
            timezoneLabel |-> getTimezoneLabel(hostTZ, clock)],
           [Locals(h) EXCEPT !.date = clock])

\* createUserTimezoneDay, statement by statement
Day54(h) == Step(h, "L54", "L57", [Locals(h) EXCEPT !.now = clock])

Day57(h) ==
    LET str == toLocaleString(Locals(h).now, Locals(h).userTimezone)
    IN IF Thrown(str)
       THEN Return(h, "L57", str, Locals(h))
       ELSE Step(h, "L57", "L58", [Locals(h) EXCEPT !.targetDate = DateParse(hostTZ, str)])

Day58(h) ==
    Step(h, "L58", "L61",
         [Locals(h) EXCEPT !.targetDate =
             setDate(hostTZ, Locals(h).targetDate,
                     getDate(hostTZ, Locals(h).targetDate) + Locals(h).days)])

Day61(h) == Step(h, "L61", "L62", [Locals(h) EXCEPT !.startOfDay = Locals(h).targetDate])

Day62(h) ==
    Step(h, "L62", "L65",
         [Locals(h) EXCEPT !.startOfDay = setHours(hostTZ, Locals(h).startOfDay, 0, 0, 0, 0)])

Day65(h) == Step(h, "L65", "L66", [Locals(h) EXCEPT !.endOfDay = Locals(h).targetDate])

Day66(h) ==
    Step(h, "L66", "L68",
         [Locals(h) EXCEPT !.endOfDay = setHours(hostTZ, Locals(h).endOfDay, 23, 59, 59, 999)])

Day68(h) ==
    Return(h, "L68",
           [start |-> Locals(h).startOfDay,
            end |-> Locals(h).endOfDay,
            userTimezone |-> Locals(h).userTimezone,
            timezoneLabel |-> getTimezoneLabel(hostTZ, clock)],
           [Locals(h) EXCEPT !.date = clock])

\* the handler has used the window and sent its response
Respond(h) ==
    /\ handler[h].pc = "done"
    /\ handler' = [handler EXCEPT ![h] = Idle]
    /\ UNCHANGED <<hostTZ, clock, call, frame, adminVars, dbVars>>

InitConcurrent ==
    /\ hostTZ \in {"America/New_York", "UTC"}
    /\ clock = TimeUTC(2025, 11, 2, 5, 59, 59, 999)
    /\ call = NoCall
    /\ handler = [h \in Handlers |-> Idle]
    /\ frame = [h \in Handlers |-> NewFrame]
    /\ ModulesLoaded

NextConcurrent ==
    \/ Tick
    \/ \E h \in Handlers :
         \/ CallWindow(h)
         \/ Range31(h) \/ Range34(h) \/ Range35(h) \/ Range38(h)
         \/ Range39(h) \/ Range40(h) \/ Range42(h)
         \/ Day54(h) \/ Day57(h) \/ Day58(h) \/ Day61(h)
         \/ Day62(h) \/ Day65(h) \/ Day66(h) \/ Day68(h)
         \/ Respond(h)

SpecConcurrent == InitConcurrent /\ [][NextConcurrent]_vars

-----------------------------------------------------------------------------
(* Requests to the /api routes.                                             *)

\* the values of the days parameter of a query string
DaysQueries ==
    {[present |-> FALSE, text |-> <<>>]}
        \cup [present : {TRUE},
              text : {<<"a", "b", "c">>, <<"3", "d">>, <<>>}
                        \cup {QueryNumber(n) : n \in (0 - MaxBack)..MaxDays}]

\* the message ids a request names
EmailIds == {"AAMkAD1", "AAMkAD2"}

RECURSIVE SeqsUpTo(_, _)
\* the sequences over S of length at most n
SeqsUpTo(S, n) ==
    IF n = 0 THEN {<<>>}
    ELSE LET shorter == SeqsUpTo(S, n - 1)
         IN shorter \cup {Append(q, x) : q \in shorter, x \in S}

EmailIdLists == SeqsUpTo(EmailIds, MaxEmailIds)

RequestCalendarEvents ==
    /\ \E accessToken \in BOOLEAN, days \in DaysQueries, graphFails \in BOOLEAN :
         LET req == [accessToken |-> accessToken, days |-> days]
         IN call' = [op |-> "GET /api/calendar/events", req |-> req, now |-> clock,
                     ret |-> GetCalendarEvents(hostTZ, clock, req, graphFails)]
    /\ UNCHANGED <<hostTZ, clock, handler, frame, adminVars, dbVars>>

RequestCalendarToday ==
    /\ \E accessToken \in BOOLEAN, graphFails \in BOOLEAN :
         LET req == [accessToken |-> accessToken]
         IN call' = [op |-> "GET /api/calendar/today", req |-> req, now |-> clock,
                     ret |-> GetCalendarToday(hostTZ, clock, req, graphFails)]
    /\ UNCHANGED <<hostTZ, clock, handler, frame, adminVars, dbVars>>

RequestApi ==
    /\ \E route \in ApiRoutes, accessToken \in BOOLEAN, valid \in BOOLEAN :
       \E failAt \in 0..Len(route.calls) :
         LET req == [accessToken |-> accessToken, valid |-> valid]
         IN call' = [op |-> route.name, req |-> req, validates |-> route.validates,
                     ret |-> ApiHandler(route, req, failAt)]
    /\ UNCHANGED <<hostTZ, clock, handler, frame, adminVars, dbVars>>

RequestMoveSelectedToTrash ==
    /\ \E accessToken \in BOOLEAN, kind \in {"absent", "string", "array"} :
       \E emailIds \in (IF kind = "array" THEN EmailIdLists ELSE {<<>>}) :
       \E failing \in SUBSET DOMAIN emailIds :
         LET req == [accessToken |-> accessToken, kind |-> kind, emailIds |-> emailIds]
         IN call' = [op |-> "POST /api/emails/move-selected-to-trash", req |-> req,
                     failing |-> failing,
                     ret |-> MoveSelectedToTrash(req, failing)]
    /\ UNCHANGED <<hostTZ, clock, handler, frame, adminVars, dbVars>>

InitRoutes ==
    /\ hostTZ \in Zones
    /\ clock = TimeUTC(2025, 11, 1, 12, 0, 0, 0)
    /\ call = NoCall
    /\ handler = [h \in Handlers |-> Idle]
    /\ frame = [h \in Handlers |-> NewFrame]
    /\ ModulesLoaded

NextRoutes ==
    \/ Tick
    \/ RequestCalendarEvents
    \/ RequestCalendarToday
    \/ RequestApi
    \/ RequestMoveSelectedToTrash

SpecRoutes == InitRoutes /\ [][NextRoutes]_vars

-----------------------------------------------------------------------------
(* Requests passing the cookie-checking middlewares.                        *)

\* the texts of the userData cookie: absent, null, objects with and without
\* the two members, with an empty member, and texts that are not JSON
UserDataCookies ==
    { <<>>,
      <<"null">>,
      <<"{", "}">>,
      <<"{", "tenantId", ":", "t-42", "}">>,
      <<"{", "username", ":", "ann@example.com", "}">>,
      <<"{", "tenantId", ":", "t-42", ",", "username", ":", "ann@example.com", "}">>,
      <<"{", "username", ":", "ann@example.com", ",", "tenantId", ":", "t-42", ",",
        "name", ":", "Ann", "}">>,
      <<"{", "tenantId", ":", "", ",", "username", ":", "ann@example.com", "}">>,
      <<"{", "tenantId", ":", "t-42", ",", "username", ":", "", "}">>,
      <<"{", "tenantId", ":">>,
      <<"{", "tenantId", "t-42", "}">>,
      <<"t-42">>,
      <<"{", "tenantId", ":", "t-42", ",", "}">> }

RequestSettings ==
    /\ \E accessToken \in BOOLEAN, userData \in UserDataCookies :
         LET req == [accessToken |-> accessToken, userData |-> userData]
         IN call' = [op |-> "requireAuth", router |-> "settings", cookies |-> req,
                     ret |-> requireAuth(req)]
    /\ UNCHANGED <<hostTZ, clock, handler, frame, adminVars, dbVars>>

RequestEmails ==
    /\ \E accessToken \in BOOLEAN, userData \in UserDataCookies :
         LET req == [accessToken |-> accessToken, userData |-> userData]
         IN call' = [op |-> "requireAuth", router |-> "emails", cookies |-> req,
                     ret |-> requireAuth(req)]
    /\ UNCHANGED <<hostTZ, clock, handler, frame, adminVars, dbVars>>

RequestTenant ==
    /\ \E accessToken \in BOOLEAN, userData \in UserDataCookies :
         LET req == [accessToken |-> accessToken, userData |-> userData]
         IN call' = [op |-> "requireTenant", router |-> "tenant", cookies |-> req,
                     ret |-> requireTenant(req)]
    /\ UNCHANGED <<hostTZ, clock, handler, frame, adminVars, dbVars>>

NextMiddleware == Tick \/ RequestSettings \/ RequestEmails \/ RequestTenant

SpecMiddleware == InitRoutes /\ [][NextMiddleware]_vars

-----------------------------------------------------------------------------
(* The admin router: requests through requireAdminAuth, logout, the        *)
(* cleanup interval, and the clock, which advances a quarter of an hour at *)
(* a time and not past a cleanup that is due.                              *)

ClockStep == 15 * 60

\* when adminAuth.js is loaded and its interval started
ProcessStart == TimeUTC(2025, 1, 15, 12, 0, 0, 0)

\* when the interval's callback runs next: one period after its last run
CleanupDue == DateNow(ProcessStart) + (cleanups + 1) * CLEANUP_INTERVAL

\* the adminSession cookies a request can carry: none, one the server has
\* issued, or one it never issued
AdminCookies == {NoToken, ForgedToken} \cup 1..issued

\* the username and password fields of the login form as posted
PostedCredentials ==
    { <<ADMIN_USERNAME, ADMIN_PASSWORD>>, <<ADMIN_USERNAME, "guess">>,
      <<"mallory", ADMIN_PASSWORD>>, <<"", ADMIN_PASSWORD>>, <<ADMIN_USERNAME, "">> }

AdminRequests ==
    [method : {"GET"}, adminSession : AdminCookies, username : {""}, password : {""}]
    \cup {[method |-> "POST", adminSession |-> token, username |-> c[1], password |-> c[2]] :
            token \in AdminCookies, c \in PostedCredentials}

\* a request to a route behind requireAdminAuth
AdminRequest ==
    /\ \E req \in AdminRequests :
         LET done == requireAdminAuth(req, DateNow(clock), adminSessions, issued + 1)
         IN /\ done.ret.setCookie # NoToken => issued < MaxSessions
            /\ adminSessions' = done.sessions
            /\ issued' = IF done.ret.setCookie # NoToken THEN issued + 1 ELSE issued
            /\ call' = [op |-> "requireAdminAuth", req |-> req, ret |-> done.ret]
    /\ UNCHANGED <<hostTZ, clock, handler, frame, cleanups, dbVars>>

\* GET /admin/logout
AdminLogout ==
    /\ \E token \in AdminCookies :
         LET req == [method |-> "GET", adminSession |-> token, username |-> "",
                     password |-> ""]
             done == logoutAdmin(req, adminSessions)
         IN /\ adminSessions' = done.sessions
            /\ call' = [op |-> "logoutAdmin", req |-> req, ret |-> done.ret]
    /\ UNCHANGED <<hostTZ, clock, handler, frame, issued, cleanups, dbVars>>

\* the setInterval callback, every CLEANUP_INTERVAL
Cleanup ==
    /\ DateNow(clock) >= CleanupDue
    /\ LET swept == Swept(DateNow(clock), adminSessions)
       IN /\ adminSessions' = [t \in DOMAIN adminSessions \ swept |-> adminSessions[t]]
          /\ call' = [op |-> "cleanup", swept |-> swept]
    /\ cleanups' = cleanups + 1
    /\ UNCHANGED <<hostTZ, clock, handler, frame, issued, dbVars>>

InitAdmin ==
    /\ hostTZ = "America/New_York"
    /\ clock = ProcessStart
    /\ call = NoCall
    /\ handler = [h \in Handlers |-> Idle]
    /\ frame = [h \in Handlers |-> NewFrame]
    /\ ModulesLoaded

\* the end of the time modelled
AdminClockEnd == DateNow(ProcessStart) + MaxCleanups * CLEANUP_INTERVAL

AdvanceClock ==
    /\ DateNow(clock) < CleanupDue
    /\ DateNow(clock) < AdminClockEnd
    /\ clock' = [clock EXCEPT !.s = clock.s + ClockStep]
    /\ call' = NoCall
    /\ UNCHANGED <<hostTZ, handler, frame, adminVars, dbVars>>

NextAdmin == AdvanceClock \/ Cleanup \/ AdminRequest \/ AdminLogout

SpecAdmin == InitAdmin /\ [][NextAdmin]_vars

\* the timers of the process fire: time passes and the interval callback
\* runs when it is due
SpecAdminFair == SpecAdmin /\ WF_vars(AdvanceClock) /\ WF_vars(Cleanup)

-----------------------------------------------------------------------------
(* GET /auth/callback.  The handler is async: it gives up control at each  *)
(* await (the token exchange, findOrCreate, update), where the other       *)
(* handler in flight may run.                                              *)

TenantIds == {"contoso", "fabrikam"}

\* the response before the handler has touched it
NewResponse == [status |-> 0, cookies |-> <<>>, redirects |-> <<>>, json |-> "none"]

\* res.status(status).json({error})
Json(res, status, error) == [res EXCEPT !.status = status, !.json = error]

\* res.cookie(name, ...)
Cookie(res, name) == [res EXCEPT !.cookies = Append(@, name)]

\* res.redirect(location)
Redirect(res, location) ==
    [res EXCEPT !.status = 302, !.redirects = Append(@, location)]

\* the two cookies and the redirect that end the try block
Authenticated(res) ==
    Redirect(Cookie(Cookie(res, "accessToken"), "userData"), "/dashboard")

DatabaseError_Blocks(res) == Json(res, 500, "Database error")

\* the catch (dbError) block
DatabaseError(res) ==
    Redirect(Cookie(Cookie(res, "accessToken"), "userData"), "/dashboard")

\* the number of "User authenticated" lines logged for the tenant
Logged(tenantId) == IF tenantId \in DOMAIN authLog THEN authLog[tenantId] ELSE 0

RECURSIVE SumLogged(_)
SumLogged(tenants) ==
    IF tenants = {} THEN 0
    ELSE LET t == CHOOSE x \in tenants : TRUE
         IN Logged(t) + SumLogged(tenants \ {t})

\* the handlers between their first statement and their response
InFlight == {h \in Handlers : handler[h].pc \notin {"idle", "done"}}

\* the handler's locals at its first statement
CallbackLocals(code) ==
    [pc |-> "callback", code |-> code, exchanged |-> FALSE, tenantId |-> "",
     userCount |-> 0, dbError |-> FALSE, res |-> NewResponse]

\* a request arrives, with or without ?code=; without, 400 at once;
\* with, the handler runs up to await pca.acquireTokenByCode
BeginCallback(h) ==
    /\ handler[h] = Idle
    /\ SumLogged(TenantIds) + Cardinality(InFlight) < MaxLogins
    /\ \E code \in BOOLEAN :
         LET locals == CallbackLocals(code)
         IN handler' = [handler EXCEPT ![h] =
              IF ~code
              THEN [locals EXCEPT !.pc = "done",
                      !.res = Json(@, 400, "Authorization code not provided")]
              ELSE [locals EXCEPT !.pc = "acquireTokenByCode"]]
    /\ UNCHANGED <<hostTZ, clock, call, frame, adminVars, dbVars>>

\* the token exchange settles: rejected, the outer catch answers 500;
\* resolved, the handler reads the tenant of the account and runs up to
\* await ClientOrganization.findOrCreate
AcquireTokenByCode(h) ==
    /\ handler[h].pc = "acquireTokenByCode"
    /\ \/ handler' = [handler EXCEPT ![h].pc = "done",
                         ![h].res = Json(@, 500, "Token exchange failed")]
       \/ \E tenantId \in TenantIds :
            handler' = [handler EXCEPT ![h].pc = "findOrCreate",
                          ![h].exchanged = TRUE, ![h].tenantId = tenantId]
    /\ UNCHANGED <<hostTZ, clock, call, frame, adminVars, dbVars>>

\* findOrCreate settles.  Rejected: the catch (dbError) block.  Resolved
\* with created: the row is there with userCount 1 and the handler runs to
\* its end.  Resolved with an existing row: the handler holds the row as it
\* read it and runs up to await organization.update
FindOrCreate(h) ==
    /\ handler[h].pc = "findOrCreate"
    /\ LET tenantId == handler[h].tenantId
       IN \/ /\ handler' = [handler EXCEPT ![h].pc = "done", ![h].dbError = TRUE,
                               ![h].res = DatabaseError(@)]
             /\ UNCHANGED dbVars
          \/ /\ tenantId \notin DOMAIN organizations
             /\ organizations' = Set(organizations, tenantId, [userCount |-> 1])
             /\ authLog' = Set(authLog, tenantId, Logged(tenantId) + 1)
             /\ handler' = [handler EXCEPT ![h].pc = "done", ![h].userCount = 1,
                               ![h].res = Authenticated(@)]
          \/ /\ tenantId \in DOMAIN organizations
             /\ handler' = [handler EXCEPT ![h].pc = "update",
                               ![h].userCount = organizations[tenantId].userCount]
             /\ UNCHANGED dbVars
    /\ UNCHANGED <<hostTZ, clock, call, frame, adminVars>>

\* organization.update({userCount: organization.userCount + 1}) settles:
\* rejected, the catch (dbError) block; resolved, the row holds the count
\* the handler read plus one and the handler runs to its end
Update(h) ==
    /\ handler[h].pc = "update"
    /\ LET tenantId == handler[h].tenantId
       IN \/ /\ handler' = [handler EXCEPT ![h].pc = "done", ![h].dbError = TRUE,
                               ![h].res = DatabaseError(@)]
             /\ UNCHANGED dbVars
          \/ /\ organizations' = Set(organizations, tenantId,
                                     [userCount |-> handler[h].userCount + 1])
             /\ authLog' = Set(authLog, tenantId, Logged(tenantId) + 1)
             /\ handler' = [handler EXCEPT ![h].pc = "done",
                               ![h].userCount = @ + 1,
                               ![h].res = Authenticated(@)]
    /\ UNCHANGED <<hostTZ, clock, call, frame, adminVars>>

InitCallback ==
    /\ hostTZ = "UTC"
    /\ clock = TimeUTC(2025, 1, 15, 12, 0, 0, 0)
    /\ call = NoCall
    /\ handler = [h \in Handlers |-> Idle]
    /\ frame = [h \in Handlers |-> NewFrame]
    /\ ModulesLoaded

NextCallback ==
    \E h \in Handlers :
        \/ BeginCallback(h)
        \/ AcquireTokenByCode(h)
        \/ FindOrCreate(h)
        \/ Update(h)
        \/ Respond(h)

SpecCallback == InitCallback /\ [][NextCallback]_vars

-----------------------------------------------------------------------------
(* What the claims speak of.                                               *)

CalledRange == call.op = "createUserTimezoneDateRange"
CalledDay == call.op = "createUserTimezoneDay"

\* the call returned a window
IsRange == CalledRange /\ ~Thrown(call.ret)
IsDay == CalledDay /\ ~Thrown(call.ret)
IsLabel == call.op = "getTimezoneLabel"

\* a request to one of the /api routes, and to one of the calendar routes
IsApiRequest == "req" \in DOMAIN call
IsCalendarRequest == call.op \in {"GET /api/calendar/events", "GET /api/calendar/today"}

\* the session the request's cookie names is in the store and has not
\* expired, before the request is handled
LiveBefore(req) ==
    /\ req.adminSession \in DOMAIN adminSessions
    /\ DateNow(clock) < adminSessions[req.adminSession].expires

\* a POST whose username and password are the configured ones
GoodCredentials(req) ==
    /\ req.method = "POST"
    /\ req.username = ADMIN_USERNAME
    /\ req.password = ADMIN_PASSWORD

\* a POST of a username and a password, neither of them empty
BothFieldsPosted(req) == req.method = "POST" /\ req.username # "" /\ req.password # ""

Eastern == "America/New_York"

\* a formatting call, and the two kinds that show a time of day
CalledFormat == call.op \in {"toLocaleTimeString", "startTimeFormatted", "toLocaleDateString"}
ShowsTimeOfDay ==
    /\ call.op \in {"toLocaleTimeString", "startTimeFormatted"}
    /\ ~Thrown(call.ret)

\* a string shown in an API response or a prompt
IsDisplay ==
    call.op \in {"displayTime", "emailSummary", "promptCurrentTime", "formatEmailsForPrompt"}

IsDigit(c) == \E n \in 0..9 : Digit(n) = c

DigitValue(c) == CHOOSE n \in 0..9 : Digit(n) = c

\* the timezone abbreviations a string can carry
Abbreviations == {"EST", "EDT", "GMT+10", "GMT+11", "MST", "UTC"}

AbbreviationsIn(txt) == {i \in DOMAIN txt : txt[i] \in Abbreviations}

\* the abbreviation US Eastern time carries at instant t
EasternLabelAt(t) == IF ZoneInDST(Eastern, t.s) THEN "EDT" ELSE "EST"

\* the UTC length in seconds of the civil day dayNo of zone z
ZoneDayLength(z, dayNo) ==
    UTC(z, MakeDate(dayNo + 1, 0, 0)).s - UTC(z, MakeDate(dayNo, 0, 0)).s

\* t is the first millisecond of civil day dayNo of zone z
IsStartOfDay(z, t, dayNo) ==
    /\ Day(LocalTime(z, t)) = dayNo
    /\ TimeWithinDay(LocalTime(z, t)) = 0
    /\ t.ms = 0

\* t is the last millisecond of civil day dayNo of zone z
IsEndOfDay(z, t, dayNo) ==
    /\ Day(LocalTime(z, t)) = dayNo
    /\ TimeWithinDay(LocalTime(z, t)) = SecPerDay - 1
    /\ t.ms = 999

\* end - start + 1 ms, in seconds, of a window whose end is the last
\* millisecond of a second and whose start is on a second
SpanSeconds(w) == w.end.s + 1 - w.start.s

WholeSeconds(w) == w.start.ms = 0 /\ w.end.ms = 999

\* zone z has the same offset on 1 January and on 1 July of year y
SameJanJul(z, y) ==
    OffsetAt(z, TimeUTC(y, 1, 1, 12, 0, 0, 0).s) = OffsetAt(z, TimeUTC(y, 7, 1, 12, 0, 0, 0).s)

\* zone z is on daylight time on 1 January and on standard time on 1 July of y
SouthernDST(z, y) ==
    /\ ZoneInDST(z, TimeUTC(y, 1, 1, 12, 0, 0, 0).s)
    /\ ~ZoneInDST(z, TimeUTC(y, 7, 1, 12, 0, 0, 0).s)

-----------------------------------------------------------------------------
(* The claims.                                                             *)

\* C1: dayWindow(zone, 0, referenceNow) starts at 00:00:00.000 and ends at
\* 23:59:59.999 of the zone-local date of referenceNow, both read on the
\* zone's own calendar.
C1_DayWindowIsZoneLocalDay ==
    (IsDay /\ call.daysOffset = 0) =>
        LET today == Day(LocalTime(call.userTimezone, call.now))
        IN /\ IsStartOfDay(call.userTimezone, call.ret.start, today)
           /\ IsEndOfDay(call.userTimezone, call.ret.end, today)

\* C2: US Eastern, referenceNow 2025-01-15T12:00:00Z: the day window is
\* 2025-01-15T05:00:00.000Z .. 2025-01-16T04:59:59.999Z, labelled "EST".
C2_EasternStandardScenario ==
    (/\ IsDay
     /\ call.userTimezone = Eastern
     /\ call.daysOffset = 0
     /\ call.now = TimeUTC(2025, 1, 15, 12, 0, 0, 0)) =>
        /\ call.ret.start = TimeUTC(2025, 1, 15, 5, 0, 0, 0)
        /\ call.ret.end = TimeUTC(2025, 1, 16, 4, 59, 59, 999)
        /\ call.ret.timezoneLabel = "EST"

\* C3: US Eastern, referenceNow 2025-07-15T12:00:00Z: the day window is
\* 2025-07-15T04:00:00.000Z .. 2025-07-16T03:59:59.999Z, labelled "EDT".
C3_EasternDaylightScenario ==
    (/\ IsDay
     /\ call.userTimezone = Eastern
     /\ call.daysOffset = 0
     /\ call.now = TimeUTC(2025, 7, 15, 12, 0, 0, 0)) =>
        /\ call.ret.start = TimeUTC(2025, 7, 15, 4, 0, 0, 0)
        /\ call.ret.end = TimeUTC(2025, 7, 16, 3, 59, 59, 999)
        /\ call.ret.timezoneLabel = "EDT"

\* C4: the range window of `days` days ends where the day window of offset
\* `days` ends and starts where the day window of offset 0 starts, for the
\* same zone and the same reference instant; with days = 0 the two windows
\* are the same value.
C4_RangeEndsWithDayWindow ==
    IsRange =>
        /\ call.ret.end =
             createUserTimezoneDay(hostTZ, call.now, call.userTimezone, call.days).end
        /\ call.ret.start =
             createUserTimezoneDay(hostTZ, call.now, call.userTimezone, 0).start
        /\ call.days = 0 =>
             call.ret = createUserTimezoneDay(hostTZ, call.now, call.userTimezone, 0)

\* C4 witness: a range of several days was computed across the end of
\* daylight time of the process's zone.
C4_Witness ==
    /\ IsRange
    /\ call.days > 1
    /\ hostTZ = Eastern
    /\ call.now = TimeUTC(2025, 11, 1, 12, 0, 0, 0)

\* C5: the label of a window of US Eastern time is the abbreviation in
\* force at the window's start instant, also when the window starts on the
\* other side of a transition from the moment of the call.
C5_LabelIsTheOneAtStart ==
    ((IsDay \/ IsRange) /\ call.userTimezone = Eastern) =>
        call.ret.timezoneLabel = EasternLabelAt(call.ret.start)

\* C6 as claimed: three days before the spring-forward of US Eastern time
\* the 7-day range window spans exactly 7*24 - 1 hours.
C6_SpanIsSevenDaysLessAnHour ==
    (/\ IsRange
     /\ call.userTimezone = Eastern
     /\ call.days = 7
     /\ call.now = TimeUTC(2025, 3, 6, 12, 0, 0, 0)) =>
        /\ call.ret.end.s - call.ret.start.s = (7 * 24 - 1) * SecPerHour
        /\ call.ret.end.ms = call.ret.start.ms

\* C6 as amended: that window runs from the first millisecond of day 0 to
\* the last millisecond of day 7, eight civil days of the process's zone:
\* 8*24 hours less 1 ms, less the hour by which the process's zone moves its
\* clocks forward in between; in a process on US Eastern time, 8*24 - 1
\* hours less 1 ms.
C6_SpanIsEightDaysOfTheProcessZone ==
    (/\ IsRange
     /\ call.userTimezone = Eastern
     /\ call.days = 7
     /\ call.now = TimeUTC(2025, 3, 6, 12, 0, 0, 0)) =>
        /\ WholeSeconds(call.ret)
        /\ SpanSeconds(call.ret) =
             8 * 24 * SecPerHour
             - (OffsetAt(hostTZ, call.ret.end.s) - OffsetAt(hostTZ, call.ret.start.s))
        /\ hostTZ = Eastern => SpanSeconds(call.ret) = (8 * 24 - 1) * SecPerHour

\* C6 witness: the 7-day range was computed three days before the
\* spring-forward, in a process on US Eastern time.
C6_Witness ==
    /\ IsRange
    /\ hostTZ = Eastern
    /\ call.userTimezone = Eastern
    /\ call.days = 7
    /\ call.now = TimeUTC(2025, 3, 6, 12, 0, 0, 0)

\* C7: when the day window lands on a day on which the zone changes its
\* offset, start and end are the first and last millisecond of that civil
\* day of the zone, each at its own offset: 23 hours less 1 ms apart on the
\* spring-forward day, 25 hours less 1 ms on the fall-back day.
C7_TransitionDayWindow ==
    IsDay =>
        LET target == Day(LocalTime(call.userTimezone, call.now)) + call.daysOffset
            length == ZoneDayLength(call.userTimezone, target)
        IN length # SecPerDay =>
             /\ length \in {23 * SecPerHour, 25 * SecPerHour}
             /\ WholeSeconds(call.ret)
             /\ SpanSeconds(call.ret) = length
             /\ IsStartOfDay(call.userTimezone, call.ret.start, target)
             /\ IsEndOfDay(call.userTimezone, call.ret.end, target)

\* C8: isInDST tells whether the callers' zone, US Eastern, is on daylight
\* time at the instant asked about, whatever zone the process runs in.
C8_DSTOfTheGivenZone ==
    IsLabel => (call.isInDST <=> ZoneInDST(Eastern, call.date.s))

\* C9: in a zone whose offsets on 1 January and 1 July are the same,
\* isInDST is false for every instant.
C9_NoDSTZoneNeverInDST ==
    (IsLabel /\ \A y \in Years : SameJanJul(hostTZ, y)) => ~call.isInDST

\* C9 witness: isInDST was asked in July in a zone without daylight time
\* that is not UTC.
C9_Witness ==
    /\ IsLabel
    /\ hostTZ = "America/Phoenix"
    /\ call.date = TimeUTC(2025, 7, 15, 12, 0, 0, 0)

\* C10: in a zone that is on daylight time in January and on standard time
\* in July, isInDST is true exactly for the instants at the January offset.
C10_SouthernHemisphere ==
    (IsLabel /\ \A y \in Years : SouthernDST(hostTZ, y)) =>
        LET y == getFullYear(hostTZ, call.date)
            janOffset == OffsetAt(hostTZ, TimeUTC(y, 1, 1, 12, 0, 0, 0).s)
            julOffset == OffsetAt(hostTZ, TimeUTC(y, 7, 1, 12, 0, 0, 0).s)
            offset == OffsetAt(hostTZ, call.date.s)
        IN /\ offset = janOffset => call.isInDST
           /\ offset = julOffset => ~call.isInDST

\* C10 witness: isInDST was asked in the southern winter and answered false.
C10_Witness ==
    /\ IsLabel
    /\ hostTZ = "Australia/Sydney"
    /\ call.date = TimeUTC(2025, 7, 15, 12, 0, 0, 0)
    /\ ~call.isInDST

\* C11: on every day of the year the label is the daylight abbreviation
\* exactly when isInDST is true of the same instant, and the standard
\* abbreviation otherwise ("EDT" iff daylight time, else "EST").
C11_LabelFollowsIsInDST ==
    IsLabel =>
        /\ call.ret \in {"EST", "EDT"}
        /\ call.ret = "EDT" <=> call.isInDST
        /\ call.ret = "EST" <=> ~call.isInDST

\* C11 witness: the label was computed on a daylight-time day of the year
\* walked day by day.
C11_Witness ==
    /\ IsLabel
    /\ hostTZ = Eastern
    /\ call.date = TimeUTC(2025, 6, 21, 12, 0, 0, 0)
    /\ call.isInDST

\* C12: rangeWindow with a negative number of days fails and returns no
\* window, so no window whose end precedes its start is ever produced.
C12_NegativeDaysRejected ==
    (CalledRange /\ call.days < 0) => Thrown(call.ret)

C14_UnknownAbbreviationRejected ==
    ((CalledRange \/ CalledDay)
       /\ IsValidTimeZone(call.userTimezone) /\ call.userTimezone # Eastern) =>
        Thrown(call.ret)

\* C15: every window returned by createUserTimezoneDay, whatever the
\* offset, and by createUserTimezoneDateRange for days >= 0, has
\* start <= end.
C15_StartNotAfterEnd ==
    (IsDay \/ (IsRange /\ call.days >= 0)) => ~Before(call.ret.end, call.ret.start)

\* C15 witness: a range window of zero days was returned on the day the
\* process's zone sets its clocks back.
C15_Witness ==
    /\ IsRange
    /\ call.days = 0
    /\ hostTZ = Eastern
    /\ call.now = TimeUTC(2025, 11, 2, 6, 30, 0, 0)

\* C16: the day window covers the civil date of the zone that lies
\* daysOffset days after the zone-local date of the reference instant:
\* start and end both fall on that date of the zone's calendar.
C16_CivilDateIsOffsetDaysAhead ==
    IsDay =>
        LET target == Day(LocalTime(call.userTimezone, call.now)) + call.daysOffset
        IN /\ Day(LocalTime(call.userTimezone, call.ret.start)) = target
           /\ Day(LocalTime(call.userTimezone, call.ret.end)) = target

\* C17: the window is a function of zone, days and reference instant alone:
\* a process in any other timezone returns the same start, end and label
\* for the same arguments at the same instant.
C17_SameWindowInEveryProcess ==
    /\ IsDay =>
         \A tz \in Zones :
           createUserTimezoneDay(tz, call.now, call.userTimezone, call.daysOffset) = call.ret
    /\ IsRange =>
         \A tz \in Zones :
           createUserTimezoneDateRange(tz, call.now, call.userTimezone, call.days) = call.ret

\* C18: whatever the interleaving of the calls in flight, a call that has
\* finished returned what the function returns when run alone with the same
\* arguments and the same two readings of the clock (the one at its first
\* statement, the one its label was computed from).
C18_SameAsRunAlone ==
    \A h \in Handlers :
        handler[h].pc = "done" =>
            LET r == handler[h]
                now == Locals(h).now
                alone == IF r.op = "createUserTimezoneDay"
                         THEN createUserTimezoneDay(hostTZ, now, r.userTimezone, r.days)
                         ELSE createUserTimezoneDateRange(hostTZ, now, r.userTimezone, r.days)
            IN r.ret = IF Thrown(alone) THEN alone
                       ELSE [alone EXCEPT !.timezoneLabel =
                                getTimezoneLabel(hostTZ, Locals(h).date)]

\* C18 witness: a call returned its window while another call, with other
\* arguments, was between two of its statements, and the clock had moved
\* since the finished call first read it.
C18_Witness ==
    /\ handler[1].pc = "done"
    /\ ~Thrown(handler[1].ret)
    /\ handler[2].pc \in {"L35", "L38", "L39", "L40", "L58", "L61", "L62", "L65", "L66"}
    /\ handler[2].userTimezone # handler[1].userTimezone
    /\ Before(frame[1].now, frame[1].date)

\* C19: the time of day in a formatted string is the zone's local time on
\* a 12-hour clock: the hour 1..12 written without a leading zero, a colon,
\* the minute as exactly two digits, a space and AM or PM.
C19_TwelveHourClock ==
    ShowsTimeOfDay =>
        LET txt == call.ret.text
            tl == LocalTime(call.timeZone, call.date)
            h == HourFromTime(tl)
            c == CHOOSE i \in DOMAIN txt : txt[i] = ":"
            twoDigitHour == c >= 3 /\ IsDigit(txt[c - 2])
            hour == IF twoDigitHour
                    THEN 10 * DigitValue(txt[c - 2]) + DigitValue(txt[c - 1])
                    ELSE DigitValue(txt[c - 1])
        IN /\ Cardinality({i \in DOMAIN txt : txt[i] = ":"}) = 1
           /\ Len(txt) = c + 4
           /\ c >= 2 /\ IsDigit(txt[c - 1])
           /\ twoDigitHour => txt[c - 2] # "0"
           /\ (c >= 4 /\ twoDigitHour) => ~IsDigit(txt[c - 3])
           /\ call.op = "toLocaleTimeString" => c = (IF twoDigitHour THEN 3 ELSE 2)
           /\ hour \in 1..12
           /\ hour % 12 = h % 12
           /\ IsDigit(txt[c + 1]) /\ IsDigit(txt[c + 2])
           /\ 10 * DigitValue(txt[c + 1]) + DigitValue(txt[c + 2]) = MinFromTime(tl)
           /\ txt[c + 3] = " "
           /\ txt[c + 4] = (IF h < 12 THEN "AM" ELSE "PM")

\* C19 witness: five past two in the afternoon in New York was formatted
\* as "2:05 PM".
C19_Witness ==
    /\ call.op = "toLocaleTimeString"
    /\ call.timeZone = Eastern
    /\ call.date = TimeUTC(2025, 7, 15, 18, 5, 0, 0)
    /\ call.ret = [text |-> <<"2", ":", "0", "5", " ", "PM">>]

\* C20: no formatted time string contains a timezone abbreviation, and each
\* string shown carries exactly one abbreviation, the label computed for
\* the instant of the call.
C20_OneComputedAbbreviation ==
    IsDisplay =>
        /\ \A i \in DOMAIN call.ret.formatted :
             AbbreviationsIn(call.ret.formatted[i]) = {}
        /\ Cardinality(AbbreviationsIn(call.ret.text)) = 1
        /\ \A i \in AbbreviationsIn(call.ret.text) :
             call.ret.text[i] = getTimezoneLabel(hostTZ, call.now)

\* C21: a calendar request whose window cannot be computed (a negative
\* number of days, an unresolvable zone, a zone without a known
\* abbreviation) issues no query to the mail API and is answered with a
\* 4xx/5xx status.
C21_NoQueryWithoutWindow ==
    (IsCalendarRequest /\ call.req.accessToken /\ call.op = "GET /api/calendar/events"
       /\ call.req.days.present /\ ~parseInt(call.req.days.text).isNaN
       /\ parseInt(call.req.days.text).value < 0) =>
        /\ call.ret.calls = <<>>
        /\ call.ret.status >= 400

\* C22 as stated: the request is passed on only with a live session or
\* the admin credentials; any POST with other credentials and no live
\* session gets 401 and adds no session; every other request that is not
\* passed on gets the login form with status 200.
C22_WrongCredentialsGet401 ==
    [][call'.op = "requireAdminAuth" =>
         LET req == call'.req
             ret == call'.ret
             wrong == req.method = "POST" /\ ~GoodCredentials(req) /\ ~LiveBefore(req)
         IN /\ ret.next => (LiveBefore(req) \/ GoodCredentials(req))
            /\ wrong => /\ ret.status = 401
                        /\ ~ret.next
                        /\ DOMAIN adminSessions' \subseteq DOMAIN adminSessions
            /\ (~ret.next /\ ~wrong) => (ret.status = 200 /\ ret.body = "login form")
      ]_vars

\* C22 amended: as above, but 401 is the answer to a POST of a non-empty
\* username and a non-empty password that are not the admin credentials; a
\* POST with an empty field is answered like any other request, with the
\* login form and status 200.  In neither case is a session added.
C22_NonEmptyWrongCredentialsGet401 ==
    [][call'.op = "requireAdminAuth" =>
         LET req == call'.req
             ret == call'.ret
             wrong == BothFieldsPosted(req) /\ ~GoodCredentials(req) /\ ~LiveBefore(req)
         IN /\ ret.next <=> (LiveBefore(req) \/ GoodCredentials(req))
            /\ wrong => ret.status = 401
            /\ (~ret.next /\ ~wrong) => (ret.status = 200 /\ ret.body = "login form")
            /\ ~ret.next => DOMAIN adminSessions' \subseteq DOMAIN adminSessions
      ]_vars

\* C22 witness: a POST with an empty username and the right password, and
\* no session, was answered with the login form.
C22_Witness ==
    /\ call.op = "requireAdminAuth"
    /\ call.req.method = "POST"
    /\ call.req.username = ""
    /\ call.req.password = ADMIN_PASSWORD
    /\ call.req.adminSession = NoToken
    /\ call.ret.status = 200
    /\ adminSessions = [t \in {} |-> 0]

\* C23: a stored session is accepted at time t exactly when t is strictly
\* before its expires; accepting it sets expires to t + 30 minutes; a token
\* presented at or after its expiry is deleted by that request; and a token
\* once out of the store never returns to it.
C23_SlidingTimeout ==
    /\ [][call'.op = "requireAdminAuth" =>
            LET token == call'.req.adminSession
                now == DateNow(clock)
            IN token \in DOMAIN adminSessions =>
                 IF now < adminSessions[token].expires
                 THEN /\ call'.ret.next
                      /\ call'.ret.setCookie = NoToken
                      /\ token \in DOMAIN adminSessions'
                      /\ adminSessions'[token].expires = now + SESSION_TIMEOUT
                 ELSE /\ token \notin DOMAIN adminSessions'
                      /\ call'.ret.clearCookie
                      /\ call'.ret.next => GoodCredentials(call'.req)
         ]_vars
    /\ [][\A t \in 1..issued : t \notin DOMAIN adminSessions => t \notin DOMAIN adminSessions'
         ]_vars

\* C23 witness: a token was presented at the very instant of its expiry
\* and the request got the login form, the session gone.
C23_Witness ==
    /\ call.op = "requireAdminAuth"
    /\ call.req.adminSession = 1
    /\ call.req.method = "GET"
    /\ call.ret.clearCookie
    /\ ~call.ret.next
    /\ 1 \notin DOMAIN adminSessions
    /\ DateNow(clock) = DateNow(ProcessStart) + SESSION_TIMEOUT

\* C24: once logoutAdmin has handled a request carrying token T, T is not
\* in the store then or ever after, and a request presenting a token that
\* is not in the store is passed on only as a login with the admin
\* credentials, under a new token.
C24_LoggedOutTokenIsDead ==
    /\ \A T \in {ForgedToken} \cup 1..MaxSessions :
         []((call.op = "logoutAdmin" /\ call.req.adminSession = T)
              => [](T \notin DOMAIN adminSessions))
    /\ [][(call'.op = "requireAdminAuth"
             /\ call'.req.adminSession \notin DOMAIN adminSessions
             /\ call'.ret.next) =>
            /\ GoodCredentials(call'.req)
            /\ call'.ret.setCookie \notin {NoToken, call'.req.adminSession}
         ]_vars

\* C24 witness: the first session was logged out within its 30 minutes.
C24_Witness ==
    /\ call.op = "logoutAdmin"
    /\ call.req.adminSession = 1
    /\ issued = 1
    /\ adminSessions = [t \in {} |-> 0]
    /\ DateNow(clock) < DateNow(ProcessStart) + SESSION_TIMEOUT

\* C25: a stored session whose expires lies in the past is eventually out
\* of the store; the cleanup deletes only sessions whose expires lies in
\* the past; and the count reported is the number of stored sessions, the
\* live ones plus those at or past their expiry still in the store.
C25_ExpiredSessionsAreSwept ==
    /\ \A T \in 1..MaxSessions :
         (T \in DOMAIN adminSessions /\ DateNow(clock) > adminSessions[T].expires)
            ~> (T \notin DOMAIN adminSessions)
    /\ [][call'.op = "cleanup" =>
            \A t \in DOMAIN adminSessions \ DOMAIN adminSessions' :
                DateNow(clock) > adminSessions[t].expires
         ]_vars
    /\ [](getActiveSessionsCount(adminSessions) =
            Cardinality({t \in DOMAIN adminSessions :
                            DateNow(clock) < adminSessions[t].expires})
            + Cardinality({t \in DOMAIN adminSessions :
                            DateNow(clock) >= adminSessions[t].expires}))

\* C25 witness: the cleanup deleted the first session and left the second,
\* not yet expired, in the store.
C25_Witness ==
    /\ call.op = "cleanup"
    /\ call.swept = {1}
    /\ DOMAIN adminSessions = {2}

\* C26: whenever no callback is in flight, the userCount of a tenant's
\* organization row is the number of logins the handler completed for that
\* tenant: 1 after the first, one more after each later one.
C26_UserCountIsLoginCount ==
    InFlight = {} =>
        \A tenantId \in TenantIds :
            Logged(tenantId) > 0 =>
                /\ tenantId \in DOMAIN organizations
                /\ organizations[tenantId].userCount = Logged(tenantId)

\* C27: a finished callback whose token exchange succeeded has set the
\* accessToken and the userData cookie once each and redirected once, to
\* /dashboard, whether or not the database step failed; without a code it
\* answered 400 and after a failed token exchange 500, with no cookie and
\* no redirect.
C27_DatabaseNeverBlocksLogin ==
    \A h \in Handlers :
        handler[h].pc = "done" =>
            LET locals == handler[h]
                res == locals.res
            IN /\ locals.exchanged =>
                    /\ res.cookies = <<"accessToken", "userData">>
                    /\ res.redirects = <<"/dashboard">>
                    /\ res.status = 302
                    /\ res.json = "none"
               /\ ~locals.exchanged =>
                    /\ res.status = IF locals.code THEN 500 ELSE 400
                    /\ res.cookies = <<>>
                    /\ res.redirects = <<>>
               /\ locals.dbError => locals.exchanged

\* C27 witness: a callback was redirected to the dashboard with both
\* cookies after organization.update failed.
C27_Witness ==
    \E h \in Handlers :
        /\ handler[h].pc = "done"
        /\ handler[h].dbError
        /\ handler[h].tenantId \in DOMAIN organizations
        /\ handler[h].userCount = organizations[handler[h].tenantId].userCount
        /\ handler[h].res.redirects = <<"/dashboard">>
        /\ handler[h].res.cookies = <<"accessToken", "userData">>

\* C28: for a non-empty array of ids the move is attempted for every id in
\* input order whether or not earlier moves failed: one result per id, in
\* the same order, failed exactly where the mail API rejected the move, and
\* successful + failed = total = the number of ids.
C28_OneResultPerId ==
    (call.op = "POST /api/emails/move-selected-to-trash" /\ call.req.accessToken
       /\ call.req.kind = "array" /\ call.req.emailIds # <<>>) =>
        LET ids == call.req.emailIds
            r == call.ret
        IN /\ r.status = 200
           /\ Len(r.calls) = Len(ids)
           /\ Len(r.results) = Len(ids)
           /\ \A i \in DOMAIN ids :
                /\ r.results[i].emailId = ids[i]
                /\ r.results[i].success <=> i \notin call.failing
           /\ r.summary.total = Len(ids)
           /\ r.summary.successful = Len(ids) - Cardinality(call.failing)
           /\ r.summary.failed = Cardinality(call.failing)
           /\ r.summary.successful + r.summary.failed = r.summary.total

\* C28 witness: three ids, the move of the first one failed and the other
\* two were still attempted.
C28_Witness ==
    /\ call.op = "POST /api/emails/move-selected-to-trash"
    /\ call.req.accessToken
    /\ call.req.emailIds = <<"AAMkAD1", "AAMkAD2", "AAMkAD1">>
    /\ call.failing = {1}
    /\ call.ret.summary = [total |-> 3, successful |-> 2, failed |-> 1]

\* C29: a request to an /api/emails or /api/calendar route without the
\* accessToken cookie is answered 401 and causes no external call, and a
\* 400 is sent before any external call is made.
C29_ChecksBeforeExternalCalls ==
    IsApiRequest =>
        /\ ~call.req.accessToken => (call.ret.status = 401 /\ call.ret.calls = <<>>)
        /\ call.ret.status = 401 => ~call.req.accessToken
        /\ call.ret.status = 400 => call.ret.calls = <<>>

\* C29 witness: a request with the cookie but without the required body
\* field was answered 400.
C29_Witness ==
    /\ call.op = "POST /api/emails/:emailId/send"
    /\ call.req.accessToken
    /\ ~call.req.valid
    /\ call.ret = Response(400, <<>>)

\* C30: requireAuth answers 401 and does not call next whenever the
\* request lacks valid authentication data: no accessToken cookie, no
\* userData cookie, userData without tenantId or username, or a userData
\* cookie that is not valid JSON.
C30_RequireAuthAnswers401 ==
    (call.op = "requireAuth"
       /\ \/ ~call.cookies.accessToken
          \/ call.cookies.userData = <<>>
          \/ JSONParse(call.cookies.userData).syntaxError
          \/ ~Truthy(Property(JSONParse(call.cookies.userData), "tenantId"))
          \/ ~Truthy(Property(JSONParse(call.cookies.userData), "username"))) =>
        /\ call.ret.status = 401
        /\ ~call.ret.next

====
